---- MODULE Spec2Model ----
(***************************************************************************)
(* Logger-Util: the Logger facade of src/logger.py, the module-level       *)
(* get_logger / get_central_logger constructors and the log_<level>        *)
(* shortcuts, over the backend logging registry they configure (logger     *)
(* name -> level and handler list, dotted names forming the hierarchy).    *)
(* A logger name is the sequence of its dot-separated segments; the date   *)
(* stamp of a log file path is left out of the path (it is the same for    *)
(* every call of one run).                                                 *)
(***************************************************************************)
EXTENDS Integers, Sequences, FiniteSets, TLC

\* ------------------------------------------------------------- bounds
NumThreads == 2       \* threads constructing the same name
MaxHandlers == 2      \* handlers on a logger beyond which no custom one is added

\* ------------------------------------------------------ level numbers
NOTSET == 0
DEBUG == 10
INFO == 20
WARNING == 30
ERROR == 40
CRITICAL == 50

Severities == {DEBUG, INFO, WARNING, ERROR, CRITICAL}
ValidLevelStrings == {"DEBUG", "INFO", "WARNING", "ERROR", "CRITICAL"}

\* str.upper() on the level strings the model passes in.
Upper(s) ==
    CASE s = "debug" -> "DEBUG"
      [] s = "bogus" -> "BOGUS"
      [] OTHER -> s

\* The upper-case attributes of the logging module that getattr can find.
\* BASIC_FORMAT is a format string, not a number: isint is FALSE for it.
LoggingAttr(a) ==
    CASE a = "DEBUG" -> [found |-> TRUE, isint |-> TRUE, v |-> DEBUG]
      [] a = "INFO" -> [found |-> TRUE, isint |-> TRUE, v |-> INFO]
      [] a = "WARNING" -> [found |-> TRUE, isint |-> TRUE, v |-> WARNING]
      [] a = "WARN" -> [found |-> TRUE, isint |-> TRUE, v |-> WARNING]
      [] a = "ERROR" -> [found |-> TRUE, isint |-> TRUE, v |-> ERROR]
      [] a = "CRITICAL" -> [found |-> TRUE, isint |-> TRUE, v |-> CRITICAL]
      [] a = "FATAL" -> [found |-> TRUE, isint |-> TRUE, v |-> CRITICAL]
      [] a = "NOTSET" -> [found |-> TRUE, isint |-> TRUE, v |-> NOTSET]
      [] a = "BASIC_FORMAT" -> [found |-> TRUE, isint |-> FALSE, v |-> NOTSET]
      [] OTHER -> [found |-> FALSE, isint |-> TRUE, v |-> NOTSET]

\* getattr(logging, level.upper(), logging.INFO)
ParseLevel(level) ==
    LET a == LoggingAttr(Upper(level))
    IN  IF a.found THEN [isint |-> a.isint, v |-> a.v]
        ELSE [isint |-> TRUE, v |-> INFO]

\* logging.DEBUG if verbose else getattr(logging, level.upper(), logging.INFO)
ResolveLevel_IgnoreVerbose(level, verbose) == ParseLevel(level)

ResolveLevel(level, verbose) ==
    IF verbose THEN [isint |-> TRUE, v |-> DEBUG] ELSE ParseLevel(level)

\* %(levelname)s
LevelName(n) ==
    CASE n = DEBUG -> "DEBUG"
      [] n = INFO -> "INFO"
      [] n = WARNING -> "WARNING"
      [] n = ERROR -> "ERROR"
      [] n = CRITICAL -> "CRITICAL"
      [] OTHER -> "Level"

\* -------------------------------------------------------------- names
None == <<>>
DefaultName == <<"Logger">>
CentralName == <<"CENTRAL">>
ModuleNames == {<<"m">>}
Names == {DefaultName, DefaultName \o <<"m">>, CentralName}

\* f"logs/{name}_{date}.log" and f"logs/central_{date}.log": the directory
\* and the file's stem (a name keeps its dots inside the stem)
DefaultPath(name) == <<"logs", name>>
CentralPath == <<"logs", <<"central">>>>

\* f"{self.name}.{module_name}"
ChildName(name, module_name) == name \o module_name

\* The loggers a record passes through: the logger itself, then every
\* ancestor by dotted prefix that the registry holds (nearest first).
RECURSIVE Chain(_)
Chain(name) ==
    IF Len(name) = 0 THEN <<>>
    ELSE (IF name \in Names THEN <<name>> ELSE <<>>)
         \o Chain(SubSeq(name, 1, Len(name) - 1))

\* -------------------------------------------------------------- state
VARIABLES
    loggers,   \* backend registry: name -> [level, handlers]
    facades,   \* the Logger object the caller holds for each name (the one
               \* built last), NoFacade when none
    central,   \* _central_logger: None or the name of its backend logger
    handle,    \* the logging.Logger handle last returned to the caller
    ret,       \* the last call: operation, arguments, exception, file opens and
               \* whether the file system let the log file be opened
    out,       \* the lines the last call emitted, in order
    pc,        \* per thread: position inside Logger.__init__
    targ       \* per thread: the arguments of its Logger(...) call

vars == <<loggers, facades, central, handle, ret, out, pc, targ>>

Threads == 1..NumThreads
\* the arguments the calls are made with
Msgs == {"boom"}
LevelStrings == ValidLevelStrings \cup {"debug", "WARN", "NOTSET", "BASIC_FORMAT", "bogus"}
CtorLevels == {"ERROR", "BASIC_FORMAT"}
LogSeverities == {INFO, ERROR}
SetLevels == {"WARNING", "BASIC_FORMAT"}
CustomLevels == {NOTSET, ERROR}
RaceName == DefaultName

NoFacade == [name |-> None, level |-> NOTSET, log_to_file |-> FALSE, path |-> None]
NewLogger == [level |-> NOTSET, handlers |-> <<>>]
RootLevel == WARNING
LastResortLevel == WARNING

NoRet == [op |-> "none", name |-> None, module |-> None, level |-> "", verbose |-> FALSE,
          log_to_file |-> FALSE, sev |-> NOTSET, raised |-> "none", opens |-> 0,
          open_ok |-> TRUE]

\* ------------------------------------------------- backend primitives
\* logging.StreamHandler(sys.stdout) with setLevel(level) and the short format
ConsoleHandler(level, id) ==
    [kind |-> "console", level |-> level, sink |-> <<"stdout">>, fmt |-> "short", id |-> id]

\* logging.FileHandler(path) with setLevel(level) and the detailed format
FileHandler(level, path, id) ==
    [kind |-> "file", level |-> level, sink |-> path, fmt |-> "detailed", id |-> id]

\* a handler the caller built: no formatter, its own level
CustomHandler(level) ==
    [kind |-> "custom", level |-> level, sink |-> <<"custom">>, fmt |-> "plain", id |-> 0]

\* self.logger.setLevel(level)
SetLoggerLevel(lg, name, level) == [lg EXCEPT ![name].level = level]

\* self.logger.handlers.clear()
ClearHandlers_Keep(lg, name) == lg

ClearHandlers(lg, name) == [lg EXCEPT ![name].handlers = <<>>]

\* self.logger.addHandler(h), h a handler object built for this call
AddHandler_Replace(lg, name, h) == [lg EXCEPT ![name].handlers = <<h>>]

AddHandler(lg, name, h) == [lg EXCEPT ![name].handlers = Append(@, h)]

\* for handler in self.logger.handlers: handler.setLevel(new_level)
SetHandlerLevels(lg, name, level) ==
    [lg EXCEPT ![name].handlers = [k \in DOMAIN @ |-> [@[k] EXCEPT !.level = level]]]

\* Logger.getEffectiveLevel: the first level set on the way up, else root's
EffectiveLevel(lg, name) ==
    LET ch == Chain(name)
        set == {k \in DOMAIN ch : lg[ch[k]].level # NOTSET}
    IN  IF set = {} THEN RootLevel
        ELSE lg[ch[CHOOSE k \in set : \A j \in set : k <= j]].level

\* The handlers a record reaches through propagation, nearest logger first.
RECURSIVE ChainHandlers(_, _)
ChainHandlers(lg, ch) ==
    IF ch = <<>> THEN <<>>
    ELSE lg[Head(ch)].handlers \o ChainHandlers(lg, Tail(ch))

\* The formatted line a handler writes for a record.
Line(h, name, sev, msg) ==
    [sink |-> h.sink, fmt |-> h.fmt, name |-> name, levelname |-> LevelName(sev), msg |-> msg]

LastResortLine(name, sev, msg) ==
    [sink |-> <<"stderr">>, fmt |-> "plain", name |-> name,
     levelname |-> LevelName(sev), msg |-> msg]

\* Logger.callHandlers: every handler on the chain whose level admits the
\* record; with no handler on the chain at all, the last-resort handler.
CallHandlers(lg, name, sev, msg) ==
    LET hs == ChainHandlers(lg, Chain(name))
        Admits(h) == sev >= h.level
        sel == SelectSeq(hs, Admits)
    IN  IF Len(hs) = 0
        THEN IF sev >= LastResortLevel THEN <<LastResortLine(name, sev, msg)>> ELSE <<>>
        ELSE [k \in DOMAIN sel |-> Line(sel[k], name, sev, msg)]

\* logger.debug/info/warning/error/critical(msg) on the backend logger `name`
Emit(lg, name, sev, msg) ==
    IF sev >= EffectiveLevel(lg, name) THEN CallHandlers(lg, name, sev, msg) ELSE <<>>

\* ------------------------------------------------------ Logger.__init__
\* _setup_console_handler
SetupConsoleHandler(lg, name, level, id) == AddHandler(lg, name, ConsoleHandler(level, id))

\* _setup_file_handler: os.makedirs / logging.FileHandler raise OSError when
\* the directory or the file cannot be created (fs is whether the file
\* system lets them); nothing is attached then.
SetupFileHandler_Swallow(lg, fs, name, level, path, id) ==
    IF fs
    THEN [raised |-> "none", opens |-> 1,
          loggers |-> AddHandler(lg, name, FileHandler(level, path, id))]
    ELSE [raised |-> "none", opens |-> 1, loggers |-> lg]

SetupFileHandler(lg, fs, name, level, path, id) ==
    IF fs
    THEN [raised |-> "none", opens |-> 1,
          loggers |-> AddHandler(lg, name, FileHandler(level, path, id))]
    ELSE [raised |-> "OSError", opens |-> 1, loggers |-> lg]

\* Logger(name, level, log_to_file, log_file_path, verbose): the registry
\* after the call, the exception it raised, the facade it built.
Construct(lg, fs, name, level, log_to_file, path, verbose) ==
    LET lv == ResolveLevel(level, verbose)
        self == [name |-> name, level |-> lv.v, log_to_file |-> log_to_file, path |-> path]
        l1 == SetLoggerLevel(lg, name, lv.v)
        l2 == ClearHandlers(l1, name)
        l3 == SetupConsoleHandler(l2, name, lv.v, 0)
        fh == SetupFileHandler(l3, fs, name, lv.v, path, 0)
    IN  IF ~lv.isint
        THEN [raised |-> "ValueError", opens |-> 0, loggers |-> lg, facade |-> NoFacade]
        ELSE IF ~log_to_file
        THEN [raised |-> "none", opens |-> 0, loggers |-> l3, facade |-> self]
        ELSE [raised |-> fh.raised, opens |-> fh.opens, loggers |-> fh.loggers,
              facade |-> IF fh.raised = "none" THEN self ELSE NoFacade]

Init ==
    /\ loggers = [n \in Names |-> NewLogger]
    /\ facades = [n \in Names |-> NoFacade]
    /\ central = None
    /\ handle = None
    /\ ret = NoRet
    /\ out = <<>>
    /\ pc = [t \in Threads |-> "idle"]
    /\ targ = [t \in Threads |-> [verbose |-> FALSE, log_to_file |-> FALSE]]

\* facade = Logger(name=..., level=..., log_to_file=..., verbose=...)
NewFacade(name, level, log_to_file, verbose, ok) ==
    LET r == Construct(loggers, ok, name, level, log_to_file, DefaultPath(name), verbose)
    IN  /\ loggers' = r.loggers
        /\ facades' = IF r.raised = "none" THEN [facades EXCEPT ![name] = r.facade]
                                           ELSE facades
        /\ ret' = [NoRet EXCEPT !.op = "Logger", !.name = name, !.level = level,
                                !.verbose = verbose, !.log_to_file = log_to_file,
                                !.raised = r.raised, !.opens = r.opens,
                                !.open_ok = (r.opens = 0 \/ ok)]
        /\ out' = <<>>
        /\ UNCHANGED <<central, handle, pc, targ>>

\* get_logger(module_name, verbose, log_to_file); module_name None takes the
\* default name. The facade is dropped, the backend logger handle returned.
GetLoggerFn(module_name, verbose, log_to_file, ok) ==
    LET name == IF module_name # None THEN module_name ELSE DefaultName
        r == Construct(loggers, ok, name, "INFO", log_to_file, DefaultPath(name), verbose)
    IN  /\ loggers' = r.loggers
        /\ handle' = IF r.raised = "none" THEN name ELSE handle
        /\ ret' = [NoRet EXCEPT !.op = "get_logger", !.name = name, !.level = "INFO",
                                !.verbose = verbose, !.log_to_file = log_to_file,
                                !.raised = r.raised, !.opens = r.opens,
                                !.open_ok = (r.opens = 0 \/ ok)]
        /\ out' = <<>>
        /\ UNCHANGED <<facades, central, pc, targ>>

\* get_central_logger(verbose, log_to_file): what the call returns and leaves
CentralCall_NoMemo(c, lg, fs, verbose, log_to_file) ==
    LET r == Construct(lg, fs, CentralName, "INFO", log_to_file, CentralPath, verbose)
    IN  [raised |-> r.raised, opens |-> r.opens, loggers |-> r.loggers,
         central |-> IF r.raised = "none" THEN CentralName ELSE c]

CentralCall_StoreEarly(c, lg, fs, verbose, log_to_file) ==
    IF c = None
    THEN LET r == Construct(lg, fs, CentralName, "INFO", log_to_file, CentralPath, verbose)
         IN  [raised |-> r.raised, opens |-> r.opens, loggers |-> r.loggers,
              central |-> CentralName]
    ELSE [raised |-> "none", opens |-> 0, loggers |-> lg, central |-> c]

CentralCall(c, lg, fs, verbose, log_to_file) ==
    IF c = None
    THEN LET r == Construct(lg, fs, CentralName, "INFO", log_to_file, CentralPath, verbose)
         IN  [raised |-> r.raised, opens |-> r.opens, loggers |-> r.loggers,
              central |-> IF r.raised = "none" THEN CentralName ELSE None]
    ELSE [raised |-> "none", opens |-> 0, loggers |-> lg, central |-> c]

GetCentralLogger(verbose, log_to_file, ok) ==
    LET r == CentralCall(central, loggers, ok, verbose, log_to_file)
    IN  /\ loggers' = r.loggers
        /\ central' = r.central
        /\ handle' = IF r.raised = "none" THEN r.central ELSE handle
        /\ ret' = [NoRet EXCEPT !.op = "get_central_logger", !.name = CentralName,
                                !.level = "INFO", !.verbose = verbose,
                                !.log_to_file = log_to_file,
                                !.raised = r.raised, !.opens = r.opens,
                                !.open_ok = (r.opens = 0 \/ ok)]
        /\ out' = <<>>
        /\ UNCHANGED <<facades, pc, targ>>

\* log_debug passes verbose=True, the other shortcuts the defaults
ShortcutVerbose_Never(sev) == FALSE

ShortcutVerbose(sev) == sev = DEBUG

\* get_central_logger's default for log_to_file
CentralDefaultLogToFile_Off == FALSE

CentralDefaultLogToFile == TRUE

ShortcutName(sev) ==
    CASE sev = DEBUG -> "log_debug"
      [] sev = INFO -> "log_info"
      [] sev = WARNING -> "log_warning"
      [] sev = ERROR -> "log_error"
      [] OTHER -> "log_critical"

\* log_debug / log_info / log_warning / log_error / log_critical (message)
LogShortcut(sev, msg, ok) ==
    LET r == CentralCall(central, loggers, ok, ShortcutVerbose(sev), CentralDefaultLogToFile)
    IN  /\ loggers' = r.loggers
        /\ central' = r.central
        /\ out' = IF r.raised = "none" THEN Emit(r.loggers, r.central, sev, msg) ELSE <<>>
        /\ ret' = [NoRet EXCEPT !.op = ShortcutName(sev), !.name = CentralName,
                                !.level = "INFO", !.verbose = ShortcutVerbose(sev),
                                !.log_to_file = CentralDefaultLogToFile, !.sev = sev,
                                !.raised = r.raised, !.opens = r.opens,
                                !.open_ok = (r.opens = 0 \/ ok)]
        /\ UNCHANGED <<facades, handle, pc, targ>>

\* ------------------------------------------------------ facade methods
\* facade.debug/info/warning/error/critical(message)
FacadeLog(n, sev, msg) ==
    /\ facades[n] # NoFacade
    /\ out' = Emit(loggers, facades[n].name, sev, msg)
    /\ ret' = [NoRet EXCEPT !.op = "log", !.name = facades[n].name, !.sev = sev]
    /\ UNCHANGED <<loggers, facades, central, handle, pc, targ>>

\* facade.set_level(level): setLevel raises on a level that is no number,
\* before self.level or any handler is touched.
SetLevelResult(lg, f, level) ==
    LET lv == ParseLevel(level)
    IN  IF ~lv.isint
        THEN [raised |-> "ValueError", loggers |-> lg, facade |-> f]
        ELSE [raised |-> "none",
              loggers |-> SetHandlerLevels(SetLoggerLevel(lg, f.name, lv.v), f.name, lv.v),
              facade |-> [f EXCEPT !.level = lv.v]]

SetLevel(n, level) ==
    LET r == SetLevelResult(loggers, facades[n], level)
    IN  /\ facades[n] # NoFacade
        /\ loggers' = r.loggers
        /\ facades' = [facades EXCEPT ![n] = r.facade]
        /\ ret' = [NoRet EXCEPT !.op = "set_level", !.name = facades[n].name,
                                !.level = level, !.raised = r.raised]
        /\ out' = <<>>
        /\ UNCHANGED <<central, handle, pc, targ>>

\* facade.get_logger(module_name)
GetLoggerResult_Self(f, module_name) == f.name

GetLoggerResult(f, module_name) ==
    IF module_name # None THEN ChildName(f.name, module_name) ELSE f.name

FacadeGetLogger(n, module_name) ==
    /\ facades[n] # NoFacade
    /\ GetLoggerResult(facades[n], module_name) \in Names
    /\ handle' = GetLoggerResult(facades[n], module_name)
    /\ ret' = [NoRet EXCEPT !.op = "Logger.get_logger", !.name = facades[n].name,
                            !.module = module_name]
    /\ out' = <<>>
    /\ UNCHANGED <<loggers, facades, central, pc, targ>>

\* facade.add_custom_handler(handler), handler newly built by the caller
AddCustomHandler(n, level) ==
    /\ facades[n] # NoFacade
    /\ Len(loggers[facades[n].name].handlers) < MaxHandlers
    /\ loggers' = AddHandler(loggers, facades[n].name, CustomHandler(level))
    /\ ret' = [NoRet EXCEPT !.op = "add_custom_handler", !.name = facades[n].name]
    /\ out' = <<>>
    /\ UNCHANGED <<facades, central, handle, pc, targ>>

\* facade.remove_all_handlers()
RemoveAllHandlers(n) ==
    /\ facades[n] # NoFacade
    /\ loggers' = ClearHandlers(loggers, facades[n].name)
    /\ ret' = [NoRet EXCEPT !.op = "remove_all_handlers", !.name = facades[n].name]
    /\ out' = <<>>
    /\ UNCHANGED <<facades, central, handle, pc, targ>>

\* handle.debug/info/...(message) on the handle a get_logger call returned
HandleLog(sev, msg) ==
    /\ handle # None
    /\ out' = Emit(loggers, handle, sev, msg)
    /\ ret' = [NoRet EXCEPT !.op = "handle.log", !.name = handle, !.sev = sev]
    /\ UNCHANGED <<loggers, facades, central, handle, pc, targ>>

\* The named facade and the module-level get_logger, on a name and its child.
FacadeNames == {DefaultName, DefaultName \o <<"m">>}

Next ==
    \/ \E n \in FacadeNames, l \in CtorLevels, f \in BOOLEAN, v \in BOOLEAN,
          ok \in BOOLEAN : NewFacade(n, l, f, v, ok)
    \/ \E n \in {None, DefaultName \o <<"m">>}, v \in BOOLEAN, f \in BOOLEAN,
          ok \in BOOLEAN : GetLoggerFn(n, v, f, ok)
    \/ \E n \in Names, sev \in LogSeverities, m \in Msgs : FacadeLog(n, sev, m)
    \/ \E n \in Names, mn \in {None} \cup ModuleNames : FacadeGetLogger(n, mn)
    \/ \E n \in Names : RemoveAllHandlers(n)
    \/ \E sev \in LogSeverities, m \in Msgs : HandleLog(sev, m)

Spec == Init /\ [][Next]_vars

\* ------------------------------------- concurrent Logger(name=RaceName)
\* Each thread runs Logger.__init__ on the same name; the statements of
\* __init__ are the steps, any interleaving of them can happen.
InitRace ==
    /\ loggers = [n \in Names |-> NewLogger]
    /\ facades = [n \in Names |-> NoFacade]
    /\ central = None
    /\ handle = None
    /\ ret = NoRet
    /\ out = <<>>
    /\ pc = [t \in Threads |-> "start"]
    /\ targ \in [Threads -> [verbose : BOOLEAN, log_to_file : BOOLEAN]]

ThreadLevel(t) == ResolveLevel("INFO", targ[t].verbose).v

\* self.logger = logging.getLogger(self.name); self.logger.setLevel(self.level)
T_SetLevel(t) ==
    /\ pc[t] = "start"
    /\ loggers' = SetLoggerLevel(loggers, RaceName, ThreadLevel(t))
    /\ pc' = [pc EXCEPT ![t] = "clear"]
    /\ UNCHANGED <<facades, central, handle, ret, out, targ>>

\* self.logger.handlers.clear()
T_Clear(t) ==
    /\ pc[t] = "clear"
    /\ loggers' = ClearHandlers(loggers, RaceName)
    /\ pc' = [pc EXCEPT ![t] = "console"]
    /\ UNCHANGED <<facades, central, handle, ret, out, targ>>

\* self._setup_console_handler()
T_Console(t) ==
    /\ pc[t] = "console"
    /\ loggers' = SetupConsoleHandler(loggers, RaceName, ThreadLevel(t), t)
    /\ pc' = [pc EXCEPT ![t] = IF targ[t].log_to_file THEN "file" ELSE "done"]
    /\ UNCHANGED <<facades, central, handle, ret, out, targ>>

\* if self.log_to_file: self._setup_file_handler()
T_File(t, ok) ==
    LET r == SetupFileHandler(loggers, ok, RaceName, ThreadLevel(t),
                              DefaultPath(RaceName), t)
    IN  /\ pc[t] = "file"
        /\ loggers' = r.loggers
        /\ pc' = [pc EXCEPT ![t] = IF r.raised = "none" THEN "done" ELSE "failed"]
        /\ UNCHANGED <<facades, central, handle, ret, out, targ>>

NextRace ==
    \/ \E t \in Threads : T_SetLevel(t)
    \/ \E t \in Threads : T_Clear(t)
    \/ \E t \in Threads : T_Console(t)
    \/ \E t \in Threads, ok \in BOOLEAN : T_File(t, ok)

SpecRace == InitRace /\ [][NextRace]_vars

\* ------------------------------------------------ the central registry
\* get_central_logger and the shortcuts, beside get_logger() on the default
\* name and a facade built directly on the name "CENTRAL".
NextCentral ==
    \/ \E v \in BOOLEAN, f \in BOOLEAN, ok \in BOOLEAN : GetCentralLogger(v, f, ok)
    \/ \E sev \in Severities, m \in Msgs, ok \in BOOLEAN : LogShortcut(sev, m, ok)
    \/ \E v \in BOOLEAN, f \in BOOLEAN, ok \in BOOLEAN : GetLoggerFn(None, v, f, ok)
    \/ \E l \in CtorLevels, f \in BOOLEAN, v \in BOOLEAN,
          ok \in BOOLEAN : NewFacade(CentralName, l, f, v, ok)
    \/ \E n \in Names, l \in SetLevels : SetLevel(n, l)
    \/ \E n \in Names, l \in CustomLevels : AddCustomHandler(n, l)
    \/ \E n \in Names : RemoveAllHandlers(n)
    \/ \E sev \in Severities, m \in Msgs : HandleLog(sev, m)

SpecCentral == Init /\ [][NextCentral]_vars

\* ------------------------------------------------- levels of one facade
\* Every level string, through the constructor and set_level, on one name.
NextLevels ==
    \/ \E l \in LevelStrings, f \in BOOLEAN, v \in BOOLEAN,
          ok \in BOOLEAN : NewFacade(DefaultName, l, f, v, ok)
    \/ \E n \in Names, l \in LevelStrings : SetLevel(n, l)
    \/ \E n \in Names, l \in CustomLevels : AddCustomHandler(n, l)
    \/ \E n \in Names, sev \in Severities, m \in Msgs : FacadeLog(n, sev, m)
    \/ \E n \in Names : RemoveAllHandlers(n)

SpecLevels == Init /\ [][NextLevels]_vars

\* ============================================================== claims
\* counting helpers of the properties below
CountKind(hs, kind) == Cardinality({k \in DOMAIN hs : hs[k].kind = kind})
CountSink(lines, sink) == Cardinality({k \in DOMAIN lines : lines[k].sink = sink})
Stdout == <<"stdout">>
Constructed == ret.op \in {"Logger", "get_logger"} /\ ret.raised = "none"
\* the handlers of the ancestors of `name` (dotted prefixes), nearest first
AncestorHandlers(name) == ChainHandlers(loggers, Tail(Chain(name)))

\* C1 (as amended): after a construction Logger(name=n, ...) that returned,
\* whatever was built on n before, the backend logger n holds exactly one
\* console handler and exactly one file handler if log_to_file was true (none
\* otherwise); a log call on n at or above the effective level then writes
\* one line to n's own log file if enabled (none otherwise), and one console
\* line for n's console handler plus one for every console handler of an
\* ancestor logger whose level admits the message.
C1_OneHandlerSet ==
    Constructed =>
        LET n == ret.name
            hs == loggers[n].handlers
            files == IF ret.log_to_file THEN 1 ELSE 0
            anc == AncestorHandlers(n)
        IN  /\ CountKind(hs, "console") = 1
            /\ CountKind(hs, "file") = files
            /\ Len(hs) = 1 + files
            /\ \A sev \in Severities, m \in Msgs :
                  sev >= EffectiveLevel(loggers, n) =>
                      LET e == Emit(loggers, n, sev, m)
                      IN  /\ CountSink(e, DefaultPath(n)) = files
                          /\ CountSink(e, Stdout) =
                                1 + Cardinality({k \in DOMAIN anc :
                                        anc[k].kind = "console" /\ sev >= anc[k].level})

\* C1 witness: a second construction on the child name has returned, with a
\* file handler, while the parent logger holds a console handler of its own.
C1_Witness ==
    /\ Constructed
    /\ ret.op = "Logger"
    /\ ret.name = DefaultName \o <<"m">>
    /\ handle = ret.name
    /\ ret.log_to_file
    /\ CountKind(loggers[DefaultName].handlers, "console") = 1

\* C1 as stated: after a construction on n every log call at or above the
\* effective level produces exactly one console line (and one file line if
\* enabled).
C1_AsStated ==
    Constructed =>
        LET n == ret.name
            hs == loggers[n].handlers
            files == IF ret.log_to_file THEN 1 ELSE 0
        IN  /\ CountKind(hs, "console") = 1
            /\ CountKind(hs, "file") = files
            /\ \A sev \in Severities, m \in Msgs :
                  sev >= EffectiveLevel(loggers, n) =>
                      LET e == Emit(loggers, n, sev, m)
                      IN  /\ CountSink(e, DefaultPath(n)) = files
                          /\ CountSink(e, Stdout) = 1

\* ---- the central registry (SpecCentral)
CentralOps == {"get_central_logger", "log_debug", "log_info", "log_warning",
               "log_error", "log_critical"}
Shortcuts == CentralOps \ {"get_central_logger"}
CentralLogger == loggers[CentralName]
\* the severity a shortcut is documented to log at
SeverityOf(op) ==
    CASE op = "log_debug" -> DEBUG
      [] op = "log_info" -> INFO
      [] op = "log_warning" -> WARNING
      [] op = "log_error" -> ERROR
      [] OTHER -> CRITICAL

\* C2: once get_central_logger has stored the handle, every later
\* get_central_logger call, whatever its arguments, returns that handle and
\* leaves the central logger's level and handlers as they were.
C2_FirstCallWins ==
    [][(central # None /\ ret'.op = "get_central_logger") =>
          /\ ret'.raised = "none"
          /\ handle' = central
          /\ central' = central
          /\ loggers' = loggers]_vars

\* C2 witness: a get_central_logger(verbose=True, log_to_file=False) call has
\* returned the handle of a central logger that is at INFO with a file handler.
C2_Witness ==
    /\ ret.op = "get_central_logger"
    /\ ret.verbose /\ ~ret.log_to_file
    /\ ret.raised = "none"
    /\ handle = CentralName
    /\ CentralLogger.level = INFO
    /\ CountKind(CentralLogger.handlers, "file") = 1

\* C5: a log_error(msg) call that finds no central logger yet (the first
\* logging operation in particular) and returns has created the logger
\* "CENTRAL" with one console and one file handler, and has written exactly
\* one ERROR line naming CENTRAL and msg to the console and exactly one to
\* the central log file.
C5_LogErrorFirst ==
    [][(central = None /\ ret'.op = "log_error" /\ ret'.raised = "none") =>
          LET hs == loggers'[CentralName].handlers
          IN  /\ central' = CentralName
              /\ Len(hs) = 2
              /\ CountKind(hs, "console") = 1
              /\ CountKind(hs, "file") = 1
              /\ \A k \in DOMAIN hs : hs[k].kind = "file" => hs[k].sink = CentralPath
              /\ Len(out') = 2
              /\ CountSink(out', Stdout) = 1
              /\ CountSink(out', CentralPath) = 1
              /\ \A k \in DOMAIN out' :
                    /\ out'[k].name = CentralName
                    /\ out'[k].levelname = "ERROR"
                    /\ out'[k].msg \in Msgs]_vars

\* C5 witness: log_error has returned with one console and one file line
\* written, no facade and no handle having been handed out before.
C5_Witness ==
    /\ ret.op = "log_error" /\ ret.raised = "none"
    /\ handle = None
    /\ \A n \in Names : facades[n] = NoFacade
    /\ central = CentralName
    /\ CountSink(out, Stdout) = 1
    /\ CountSink(out, CentralPath) = 1

\* C7: a construction with log_to_file=true whose log directory or file
\* cannot be created raises the I/O error to the caller of Logger(...), of
\* get_logger and of get_central_logger, after a single attempt to open the
\* file: no facade or handle is returned, nothing is stored, and no file
\* handler is attached.
C7_IoErrorPropagates ==
    [][(ret'.op \in {"Logger", "get_logger"} \cup CentralOps /\ ~ret'.open_ok) =>
          /\ ret'.log_to_file
          /\ ret'.raised = "OSError"
          /\ ret'.opens = 1
          /\ handle' = handle
          /\ facades' = facades
          /\ central' = central
          /\ out' = <<>>
          /\ CountKind(loggers'[ret'.name].handlers, "file") = 0]_vars

\* C7 witness: get_central_logger raised the I/O error of its one attempt.
C7_Witness ==
    /\ ret.op = "get_central_logger"
    /\ ret.log_to_file /\ ~ret.open_ok
    /\ ret.raised = "OSError"
    /\ ret.opens = 1

\* C8: the call that creates the central logger fixes its level, DEBUG for
\* log_debug and get_central_logger(verbose=True), INFO for every other
\* shortcut and for verbose=False; once it exists no log_<level> or
\* get_central_logger call changes its level or handlers; every line a
\* shortcut writes carries the shortcut's own severity, and a line is
\* written whenever the central logger's level and one of its handlers
\* admit that severity.
C8_CentralLevelFixed ==
    [][ret'.op \in CentralOps =>
          LET lvl == loggers'[CentralName].level
              hs == loggers'[CentralName].handlers
              sev == SeverityOf(ret'.op)
          IN  /\ central # None => (central' = central /\ loggers' = loggers)
              /\ (central = None /\ central' # None) =>
                    lvl = IF ret'.op = "log_debug"
                             \/ (ret'.op = "get_central_logger" /\ ret'.verbose)
                          THEN DEBUG ELSE INFO
              /\ (ret'.op \in Shortcuts /\ ret'.raised = "none") =>
                    /\ \A k \in DOMAIN out' :
                          out'[k].levelname = LevelName(sev) /\ out'[k].name = CentralName
                    /\ (sev >= lvl /\ \E k \in DOMAIN hs : sev >= hs[k].level) =>
                          Len(out') = Cardinality({k \in DOMAIN hs : sev >= hs[k].level})
                    /\ sev < lvl => out' = <<>>]_vars

\* C8 witness: log_debug has run against a central logger created at INFO
\* and wrote nothing, the level staying INFO.
C8_Witness ==
    /\ ret.op = "log_debug" /\ ret.raised = "none"
    /\ central = CentralName
    /\ CentralLogger.level = INFO
    /\ Len(CentralLogger.handlers) = 2
    /\ out = <<>>

\* C10: when the construction inside get_central_logger raises on the file
\* handler, _central_logger stays None and the backend logger "CENTRAL"
\* keeps the level and the console handler of the failed construction; the
\* next get_central_logger call constructs again with its own arguments.
C10_FailedCentralInit ==
    [][ret'.op = "get_central_logger" =>
          LET own == IF ret'.verbose THEN DEBUG ELSE INFO
              files == IF ret'.log_to_file THEN 1 ELSE 0
              c == loggers'[CentralName]
          IN  /\ (central = None /\ ret'.raised = "OSError") =>
                    /\ central' = None
                    /\ c.level = own
                    /\ c.handlers = <<ConsoleHandler(own, 0)>>
              /\ (ret.op = "get_central_logger" /\ ret.raised = "OSError") =>
                    /\ ret'.opens = files
                    /\ c.level = own
                    /\ c.handlers[1] = ConsoleHandler(own, 0)
                    /\ ret'.raised = "none" =>
                          /\ central' = CentralName
                          /\ handle' = CentralName
                          /\ Len(c.handlers) = 1 + files]_vars

\* C10 witness: a get_central_logger call made right after a failed one has
\* built the logger from its own arguments (verbose, no file).
C10_Witness ==
    /\ ret.op = "get_central_logger" /\ ret.raised = "none"
    /\ ret.verbose /\ ~ret.log_to_file
    /\ central = CentralName
    /\ CentralLogger.level = DEBUG
    /\ CentralLogger.handlers = <<ConsoleHandler(DEBUG, 0)>>
    /\ \A n \in Names : facades[n] = NoFacade

\* ---- levels (SpecLevels)
\* the level the documentation gives a level string: its own for the five
\* level names, INFO for anything else
DocumentedLevel(s) ==
    CASE s = "DEBUG" -> DEBUG
      [] s = "INFO" -> INFO
      [] s = "WARNING" -> WARNING
      [] s = "ERROR" -> ERROR
      [] s = "CRITICAL" -> CRITICAL
      [] OTHER -> INFO

\* what set_level(s) leaves when it took s for the level L: facade, logger
\* and every attached handler at L; a message at L is written once by every
\* attached handler, a message below L by none
LevelApplied(n, L) ==
    LET hs == loggers[n].handlers
    IN  /\ ret.raised = "none"
        /\ facades[n].level = L
        /\ loggers[n].level = L
        /\ \A k \in DOMAIN hs : hs[k].level = L
        /\ \A sev \in Severities, m \in Msgs :
              LET e == Emit(loggers, n, sev, m)
              IN  /\ sev = L =>
                        \A k \in DOMAIN hs :
                            CountSink(e, hs[k].sink) = CountSink(hs, hs[k].sink)
                  /\ sev < L => e = <<>>

\* C3 as stated: set_level(L) with L one of the five level names leaves the
\* facade at L (a message at L is emitted by every attached handler, a lower
\* one by none), and set_level of any other string behaves as
\* set_level("INFO").
C3_AsStated ==
    ret.op = "set_level" => LevelApplied(ret.name, DocumentedLevel(ret.level))

\* The part of C3 about the five level names alone.
C3_ValidLevels ==
    (ret.op = "set_level" /\ ret.level \in ValidLevelStrings) =>
        LevelApplied(ret.name, DocumentedLevel(ret.level))

\* C4: Logger(..., verbose=True), whatever the level argument, never fails
\* on the level and leaves the backend logger and every handler it attached
\* at DEBUG, and the facade it returns stores DEBUG.
C4_VerboseForcesDebug ==
    (ret.op = "Logger" /\ ret.verbose) =>
        LET hs == loggers[ret.name].handlers
        IN  /\ ret.raised # "ValueError"
            /\ loggers[ret.name].level = DEBUG
            /\ Len(hs) = IF ret.log_to_file /\ ret.raised = "none" THEN 2 ELSE 1
            /\ \A k \in DOMAIN hs : hs[k].level = DEBUG
            /\ ret.raised = "none" => facades[ret.name].level = DEBUG

\* C4 witness: Logger(level="ERROR", verbose=True, log_to_file=True) returned.
C4_Witness ==
    /\ ret.op = "Logger" /\ ret.verbose /\ ret.log_to_file
    /\ ret.level = "ERROR"
    /\ ret.raised = "none"
    /\ facades[ret.name].level = DEBUG

\* ---- child loggers (Spec)
ChildReturned == ret.op = "Logger.get_logger" /\ ret.module # None
\* the lines with which the handlers of the logger `parent` answer a record
\* of severity sev made on the logger `child`: one per handler admitting it
EachParentHandlerOnce(parent, child, sev, m) ==
    LET hs == loggers[parent].handlers
        e == Emit(loggers, child, sev, m)
    IN  /\ \A k \in DOMAIN hs :
              CountSink(e, hs[k].sink) = IF sev >= hs[k].level THEN 1 ELSE 0
        /\ \A k \in DOMAIN e : e[k].name = child

\* C6 (as amended): facade.get_logger(moduleName) with a module name returns
\* the backend logger named "{facade.name}.{moduleName}"; as long as no
\* facade has been constructed on that dotted name itself (the child logger
\* has no level and no handlers of its own), a message logged through it at
\* or above the facade logger's level is emitted exactly once by each of the
\* facade logger's handlers that admits it, under the child's name, and a
\* message below that level by none.
C6_ChildPropagates ==
    ChildReturned =>
        LET parent == ret.name
            child == ret.name \o ret.module
        IN  /\ handle = child
            /\ loggers[child] = NewLogger =>
                  \A sev \in Severities, m \in Msgs :
                      /\ sev >= EffectiveLevel(loggers, parent) =>
                            EachParentHandlerOnce(parent, child, sev, m)
                      /\ sev < EffectiveLevel(loggers, parent) =>
                            Emit(loggers, child, sev, m) = <<>>

\* C6 witness: get_logger("m") returned the untouched child of a facade
\* logger that carries a console and a file handler.
C6_Witness ==
    /\ ChildReturned
    /\ handle = ret.name \o ret.module
    /\ loggers[handle] = NewLogger
    /\ Len(loggers[ret.name].handlers) = 2
    /\ Len(Emit(loggers, handle, ERROR, "boom")) = 2

\* C6 as stated: in every reachable state the returned child logger has no
\* handlers of its own and a message logged through it is emitted exactly
\* once by each handler of the facade's backend logger.
C6_AsStated ==
    ChildReturned =>
        LET parent == ret.name
            child == ret.name \o ret.module
        IN  /\ handle = child
            /\ loggers[child].handlers = <<>>
            /\ \A sev \in Severities, m \in Msgs :
                  sev >= EffectiveLevel(loggers, parent) =>
                      EachParentHandlerOnce(parent, child, sev, m)

\* ---- concurrent construction (SpecRace)
RaceHandlers == loggers[RaceName].handlers
Finished(t) == pc[t] \in {"done", "failed"}
\* the handlers thread t attached that are still on the logger
Kept(t, kind) == Cardinality({k \in DOMAIN RaceHandlers :
                                 RaceHandlers[k].id = t /\ RaceHandlers[k].kind = kind})
\* everything thread t's construction attached is still on the logger
Complete(t) ==
    /\ Kept(t, "console") = 1
    /\ Kept(t, "file") = IF pc[t] = "done" /\ targ[t].log_to_file THEN 1 ELSE 0

\* C9: with the statements of Logger.__init__ interleaved between threads
\* that construct the same name, nothing keeps the handler list to one
\* construction's handlers: the logger can end with the console handlers of
\* several threads at once (the witness), and a finished construction's
\* handlers can be gone. What does hold: no thread's handler is attached
\* twice, a handler on the logger belongs to a thread that has run its
\* attach step, and once every thread has finished at least one thread, the
\* last to clear, has all its handlers on the logger.
C9_RaceOutcome ==
    /\ \A t \in Threads :
          /\ Kept(t, "console") <= 1
          /\ Kept(t, "file") <= 1
          /\ Kept(t, "console") = 1 => pc[t] \in {"file", "done", "failed"}
          /\ Kept(t, "file") = 1 => pc[t] = "done"
    /\ (\A t \in Threads : Finished(t)) => \E t \in Threads : Complete(t)

\* C9 witness: both constructions have finished and the logger holds two
\* console handlers, so one record is written to the console twice.
C9_Witness ==
    /\ \A t \in Threads : pc[t] = "done"
    /\ CountKind(RaceHandlers, "console") >= 2
    /\ CountSink(Emit(loggers, RaceName, ERROR, "boom"), Stdout) >= 2

\* C9, the other outcome: a construction that finished with a file handler
\* has lost its console handler to another thread's clear, its file handler
\* staying on the logger.
C9_MissingReached ==
    \E t \in Threads :
        /\ pc[t] = "done" /\ targ[t].log_to_file
        /\ Kept(t, "console") = 0
        /\ Kept(t, "file") = 1

\* Were construction atomic, a logger would never hold two console handlers.
C9_NoDuplicates == CountKind(RaceHandlers, "console") <= 1

====
